---- MODULE Spec2Model ----
(***************************************************************************)
(* A model of crankd (bin/crankd.py): handler resolution with the          *)
(* single-instance class cache, the filesystem watch index and its         *)
(* dispatch, the restart supervisor and the start-up / run-loop sequence.  *)
(*                                                                         *)
(* Paths are sequences of one-character strings, so that the string        *)
(* prefix test of str.startswith and the slicing of os.path.dirname are    *)
(* computed as Python computes them.  Dotted Python names are sequences of *)
(* identifiers (the dots are implicit).                                    *)
(***************************************************************************)
EXTENDS Integers, Sequences, FiniteSets, TLC

\* ------------------------------------------------------------------ bounds
MaxBatch == 2       \* events (or keys) in one delivered batch
MaxMtime == 1       \* how often a tracked file's modification time advances

\* --------------------------------------------------------- FSEvents flags
kFSEventStreamEventFlagMustScanSubDirs == 1
kFSEventStreamEventFlagUserDropped == 2
kFSEventStreamEventFlagKernelDropped == 4

Masks == 0 .. 7

\* masks[i] & flag, for a one-bit flag
BitAnd(mask, flag) == ((mask \div flag) % 2) * flag

\* ------------------------------------------------------------------ paths
SLASH == "/"

P_a     == <<"/", "a">>
P_a_b   == <<"/", "a", "/", "b">>
P_ab    == <<"/", "a", "b">>
P_c     == <<"/", "c">>
P_a_f   == <<"/", "a", "/", "f">>             \* a plain file in /a
P_link  == <<"/", "l">>                       \* a symbolic link to /a/b
P_home  == <<"~", "/", "b">>                  \* ~/b, with ~ = /a
P_nx    == <<"/", "n">>                       \* does not exist
ConfigFile == <<"/", "c", "/", "p">>          \* options.config_file
ModuleFile == <<"/", "c", "/", "m">>          \* the __file__ of a loaded module

Home == P_a

Dirs  == {<<"/">>, P_a, P_a_b, P_ab, P_c}
Links == [x \in {P_link} |-> P_a_b]
TrackedFiles == {ConfigFile, ModuleFile}
PlainFiles == {P_a_f}

\* the paths the filesystem adapter reports
ChangedPaths == {<<"/", "a", "/", "b", "/", "x">>,       \* /a/b/x
                 <<"/", "a", "/", "x">>,                 \* /a/x
                 <<"/", "a", "b", "/", "x">>,            \* /ab/x
                 <<"/", "c", "/", "y">>}                 \* /c/y

\* str.startswith
startswith(s, prefix) ==
    /\ Len(prefix) <= Len(s)
    /\ SubSeq(s, 1, Len(prefix)) = prefix

\* str.rfind('/') + 1
RECURSIVE rfind1(_, _)
rfind1(p, n) ==
    IF n = 0 THEN 0
    ELSE IF p[n] = SLASH THEN n ELSE rfind1(p, n - 1)

AllSlashes(s) == \A k \in 1 .. Len(s) : s[k] = SLASH

\* str.rstrip('/')
RECURSIVE rstrip(_)
rstrip(s) ==
    IF s # <<>> /\ s[Len(s)] = SLASH THEN rstrip(SubSeq(s, 1, Len(s) - 1)) ELSE s

\* os.path.dirname (posixpath.split()[0])
dirname(p) ==
    LET i    == rfind1(p, Len(p))
        head == SubSeq(p, 1, i)
    IN  IF head # <<>> /\ ~AllSlashes(head) THEN rstrip(head) ELSE head

\* os.path.expanduser, for "~" and "~/..."
expanduser(p) ==
    IF p # <<>> /\ p[1] = "~" /\ (Len(p) = 1 \/ p[2] = SLASH)
    THEN Home \o Tail(p)
    ELSE p

\* os.path.realpath: trailing slashes dropped, a symbolic link replaced by
\* its target
realpath(p) ==
    LET n == IF AllSlashes(p) THEN p ELSE rstrip(p)
    IN  IF n \in DOMAIN Links THEN Links[n] ELSE n

\* a path is component-wise below (or equal to) a root
IsPathPrefix(root, dir) ==
    /\ startswith(dir, root)
    /\ \/ Len(dir) = Len(root)
       \/ root[Len(root)] = SLASH
       \/ dir[Len(root) + 1] = SLASH

\* ------------------------------------------------- the Python name space
\* what __import__ can import (dotted module names)
Importable == {<<"h">>, <<"K">>, <<"p">>, <<"p", "s">>}

\* the attributes of each top-level module; p.s.g exists, but g is an
\* attribute of the submodule p.s, not of the package p
ModuleAttrs(top) ==
    CASE top = "h" -> {"f_ok", "f_raise", "B", "X"}
      [] top = "K" -> {"K"}
      [] top = "p" -> {"s"}
      [] OTHER     -> {}

\* the objects the names denote: <<module, attribute>>
Classes          == {<<"K", "K">>, <<"h", "B">>, <<"h", "X">>}
IsBaseHandler(o) == o = <<"h", "B">>             \* class B(BaseHandler)
CtorRaises(o)    == o \in {<<"h", "X">>, <<"h", "f_raise">>}
Methods(o) ==
    CASE o = <<"K", "K">> -> {"m", "r", "onNSWorkspaceDidWakeNotification_"}
      [] o = <<"h", "B">> -> {"m"}
      [] OTHER            -> {}
\* user code that raises when it is called
BodyRaises(o, meth) ==
    \/ o = <<"h", "f_raise">>
    \/ o = <<"K", "K">> /\ meth = "r"

\* "on%s:" % event, with ":" replaced by "_"
py_method(event) ==
    CASE event = <<"NSWorkspaceDidWakeNotification">>
            -> "onNSWorkspaceDidWakeNotification_"
      [] event = <<"NSWorkspaceWillSleepNotification">>
            -> "onNSWorkspaceWillSleepNotification_"
      [] OTHER -> "on_"

\* results of operations that may raise
Return(v) == [ok |-> TRUE, val |-> v, exc |-> "none"]
Raise(e)  == [ok |-> FALSE, val |-> <<>>, exc |-> e]

\* get_mod_func: split a dotted name at its last dot
get_mod_func(callback) ==
    IF Len(callback) <= 1
    THEN <<callback, <<>>>>
    ELSE <<SubSeq(callback, 1, Len(callback) - 1), <<callback[Len(callback)]>>>>

\* get_callable_from_string: __import__ returns the TOP-LEVEL package
get_callable_from_string(f_name) ==
    LET mod_name  == get_mod_func(f_name)[1]
        func_name == get_mod_func(f_name)[2]
    IN  IF mod_name = <<>> /\ func_name = <<>> THEN Raise("RuntimeError")
        ELSE IF mod_name \notin Importable THEN Raise("RuntimeError")
        ELSE LET module == mod_name[1]
                 attr   == IF func_name = <<>> THEN mod_name[1] ELSE func_name[1]
             IN  IF attr \in ModuleAttrs(module)
                 THEN Return(<<module, attr>>)
                 ELSE Raise("RuntimeError")

\* ------------------------------------------------------- handler handles
NoInst == [class |-> <<>>, name |-> <<>>, id |-> 0]

\* the callable get_callable_for_event returns (a functools.partial), the
\* bound method registered for a "class" entry, or a cond_restart closure
NoHandle ==
    [kind |-> "none", command |-> "", func |-> <<>>, inst |-> NoInst, meth |-> "",
     file_name |-> <<>>, orig_stat |-> 0, key |-> <<>>, context |-> ""]

\* the registries threaded through start-up
EmptyFn == [x \in {} |-> NoHandle]
ClassNames == {<<"K">>, <<"K", "K">>, <<"h", "B">>, <<"h", "X">>, <<"h", "nope">>}

\* get_handler_object without the test "class_name not in HANDLER_OBJECTS":
\* every call constructs an instance and stores it over the one before
get_handler_object_nocache(reg, class_name) ==
    LET c == get_callable_from_string(class_name)
    IN  IF ~c.ok THEN Raise(c.exc) @@ [reg |-> reg]
        ELSE LET reg1  == [reg EXCEPT !.made[class_name] = @ + 1]
                 h_obj == [class |-> c.val, name |-> class_name,
                           id |-> reg1.made[class_name]]
             IN  IF CtorRaises(c.val) THEN Raise("Exception") @@ [reg |-> reg1]
                 ELSE IF IsBaseHandler(c.val)
                      THEN Raise("NameError") @@ [reg |-> reg1]
                      ELSE Return(h_obj) @@
                           [reg |-> [reg1 EXCEPT !.objs =
                                       (class_name :> h_obj) @@ reg.objs]]

\* get_handler_object, on the registry record reg = [objs, made]:
\* objs is HANDLER_OBJECTS, made counts the constructor calls per class name
get_handler_object(reg, class_name) ==
    IF class_name \in DOMAIN reg.objs
    THEN Return(reg.objs[class_name]) @@ [reg |-> reg]
    ELSE LET c == get_callable_from_string(class_name)
         IN  IF ~c.ok THEN Raise(c.exc) @@ [reg |-> reg]
             ELSE LET reg1  == [reg EXCEPT !.made[class_name] = @ + 1]
                      h_obj == [class |-> c.val, name |-> class_name,
                                id |-> reg1.made[class_name]]
                  IN  IF CtorRaises(c.val) THEN Raise("Exception") @@ [reg |-> reg1]
                      ELSE IF IsBaseHandler(c.val)
                           THEN Raise("NameError") @@ [reg |-> reg1]  \* options
                           ELSE Return(h_obj) @@
                                [reg |-> [reg1 EXCEPT !.objs =
                                            (class_name :> h_obj) @@ reg.objs]]

\* get_callable_for_event
get_callable_for_event(reg, name, event_config, context) ==
    LET h0 == [NoHandle EXCEPT !.key = name, !.context = context]
    IN  IF "command" \in DOMAIN event_config
        THEN Return([h0 EXCEPT !.kind = "command",
                               !.command = event_config.command]) @@ [reg |-> reg]
        ELSE IF "function" \in DOMAIN event_config
        THEN LET c == get_callable_from_string(event_config.function)
             IN  IF c.ok
                 THEN Return([h0 EXCEPT !.kind = "function", !.func = c.val])
                      @@ [reg |-> reg]
                 ELSE Raise(c.exc) @@ [reg |-> reg]
        ELSE IF "method" \in DOMAIN event_config
        THEN LET o == get_handler_object(reg, event_config.method[1])
             IN  IF ~o.ok THEN o
                 ELSE IF event_config.method[2] \in Methods(o.val.class)
                 THEN Return([h0 EXCEPT !.kind = "method", !.inst = o.val,
                                        !.meth = event_config.method[2]])
                      @@ [reg |-> o.reg]
                 ELSE Raise("AttributeError") @@ [reg |-> o.reg]
        ELSE Raise("AttributeError") @@ [reg |-> reg]

\* ------------------------------------------------------- configurations
Wake  == <<"NSWorkspaceDidWakeNotification">>
Sleep == <<"NSWorkspaceWillSleepNotification">>
K1    == <<"State:/Network/Global/IPv4">>
K2    == <<"State:/Network/Global/DNS">>

Entry(name, event_config) == [name |-> name, cfg |-> event_config]

\* each section lists its entries in the order the dictionary yields them
CfgCommands ==
    [NSWorkspace         |-> <<Entry(Wake, [command |-> "echo"])>>,
     SystemConfiguration |-> <<Entry(K1, [command |-> "echo"]),
                               Entry(K2, [function |-> <<"h", "f_ok">>])>>,
     FSEvents            |-> <<Entry(P_a, [command |-> "echo"])>>]
CfgMethods ==
    [NSWorkspace         |-> <<Entry(Wake, [class |-> <<"K">>])>>,
     SystemConfiguration |-> <<Entry(K1, [method |-> <<<<"K">>, "m">>]),
                               Entry(K2, [method |-> <<<<"K">>, "r">>])>>,
     FSEvents            |-> <<Entry(P_a, [function |-> <<"h", "f_ok">>]),
                               Entry(P_a_b, [method |-> <<<<"K">>, "m">>])>>]
CfgFiles ==
    [SystemConfiguration |-> <<Entry(K1, [function |-> <<"h", "f_raise">>])>>,
     FSEvents            |-> <<Entry(P_c, [function |-> <<"h", "f_ok">>]),
                               Entry(P_a_f, [function |-> <<"h", "f_raise">>]),
                               Entry(P_link, [method |-> <<<<"K", "K">>, "m">>]),
                               Entry(P_home, [method |-> <<<<"K">>, "m">>])>>]
CfgRestartDir ==
    [FSEvents            |-> <<Entry(P_c, [command |-> "echo"])>>]
GoodConfigs == {CfgCommands, CfgMethods, CfgFiles, CfgRestartDir}

BadConfigs ==
    {[SystemConfiguration |-> <<Entry(K1, [command |-> "echo"]),
                                Entry(K2, [function |-> <<"h", "nofunc">>])>>],
     [FSEvents            |-> <<Entry(P_a, [function |-> <<"p", "s", "g">>])>>],
     [NSWorkspace         |-> <<Entry(Wake, [function |-> <<"nomodule">>])>>],
     [SystemConfiguration |-> <<Entry(K1, [method |-> <<<<"h", "nope">>, "m">>])>>],
     [FSEvents            |-> <<Entry(P_a, [method |-> <<<<"h", "X">>, "m">>])>>],
     [SystemConfiguration |-> <<Entry(K1, [method |-> <<<<"h", "B">>, "m">>])>>],
     [SystemConfiguration |-> <<Entry(K1, [method |-> <<<<"K">>, "zz">>])>>],
     [FSEvents            |-> <<Entry(P_a_b, [method |-> <<<<"K">>, "zz">>])>>],
     [NSWorkspace         |-> <<Entry(Sleep, [class |-> <<"K">>])>>],
     [SystemConfiguration |-> <<Entry(K1, [class |-> <<"K">>])>>],
     [FSEvents            |-> <<Entry(P_a, [command |-> "echo"]),
                                Entry(P_nx, [command |-> "echo"])>>]}

Configs == GoodConfigs \cup BadConfigs

\* ------------------------------------------------------------------ state
VARIABLES
    state,             \* Idle, Starting, Running, Stopping, Terminated
    pc,                \* the statement of main() that runs next
    exit_status,       \* the status the process ended with (-1: none yet)
    stop_reason,       \* why the run loop was left
    CRANKD_CONFIG,     \* the loaded configuration
    HANDLER_OBJECTS,   \* class name -> the one instance
    made,              \* class name -> constructor calls in this process
    NSW_OBSERVERS,     \* notification name -> the observer's callable
    SC_HANDLERS,       \* dynamic-store key -> callable
    FS_WATCHED_FILES,  \* root -> list of callables
    fs_keys,           \* the order in which the dictionary yields its roots
    sighup,            \* signal.signal(SIGHUP, ...) has run
    files,             \* the tracked files that exist
    mtime,             \* tracked file -> st_mtime
    cb,                \* the callback the run loop is executing
    ev,                \* the event (or key) the callback is working on
    calls,             \* the actions carried out for that event
    exc                \* an exception that left the callback

vars == <<state, pc, exit_status, stop_reason, CRANKD_CONFIG, HANDLER_OBJECTS, made,
          NSW_OBSERVERS, SC_HANDLERS, FS_WATCHED_FILES, fs_keys, sighup, files,
          mtime, cb, ev, calls, exc>>

registries == <<HANDLER_OBJECTS, made, NSW_OBSERVERS, SC_HANDLERS, FS_WATCHED_FILES,
                fs_keys>>
environment == <<files, mtime>>
loop == <<cb, ev, calls, exc>>

NoCb == [kind |-> "none", count |-> 0, i |-> 0,
         recursive |-> [bound |-> FALSE, val |-> FALSE]]
\* plan lists the calls the event leads to, done counts those made so far;
\* diverged records that a tracked file watched through one of the matching
\* roots had left its baseline when the event arrived
NoEv == [src |-> "none", key |-> <<>>, changed |-> <<>>, path |-> <<>>, mask |-> 0,
         recursive |-> FALSE, plan |-> <<>>, done |-> 0, diverged |-> FALSE,
         status |-> "none"]
NoMade == [c \in ClassNames |-> 0]

exists(path) == path \in Dirs \/ path \in PlainFiles \/ path \in files
isdir(path)  == path \in Dirs
\* os.stat(path).st_mtime; the directories of the model keep their time
st_mtime(path) == IF path \in DOMAIN mtime THEN mtime[path] ELSE 0

Init ==
    /\ state = "Idle"
    /\ pc = "main"
    /\ exit_status = -1
    /\ stop_reason = "none"
    /\ CRANKD_CONFIG = [x \in {} |-> <<>>]
    /\ HANDLER_OBJECTS = [x \in {} |-> NoInst]
    /\ made = NoMade
    /\ NSW_OBSERVERS = EmptyFn
    /\ SC_HANDLERS = EmptyFn
    /\ FS_WATCHED_FILES = [x \in {} |-> <<>>]
    /\ fs_keys = <<>>
    /\ sighup = FALSE
    /\ files = TrackedFiles
    /\ mtime = [f \in TrackedFiles |-> 0]
    /\ cb = NoCb
    /\ ev = NoEv
    /\ calls = <<>>
    /\ exc = "none"

\* ---------------------------------------------------------------- start-up
\* the loop of add_workspace_notifications over nsw_config
RECURSIVE add_workspace_loop(_, _, _)
add_workspace_loop(reg, observers, entries) ==
    IF entries = <<>> THEN [ok |-> TRUE, exc |-> "none", reg |-> reg, tbl |-> observers]
    ELSE
      LET event        == Head(entries).name
          event_config == Head(entries).cfg
      IN  IF "class" \in DOMAIN event_config
          THEN LET o == get_handler_object(reg, event_config.class)
               IN  IF ~o.ok
                   THEN [ok |-> FALSE, exc |-> o.exc, reg |-> o.reg, tbl |-> observers]
                   ELSE IF py_method(event) \notin Methods(o.val.class)
                   THEN [ok |-> FALSE, exc |-> "SystemExit", reg |-> o.reg,
                         tbl |-> observers]
                   ELSE add_workspace_loop(o.reg,
                          (event :> [NoHandle EXCEPT !.kind = "delegate", !.inst = o.val,
                                        !.meth = py_method(event), !.key = event,
                                        !.context = "NSWorkspace Notification"])
                            @@ observers,
                          Tail(entries))
          ELSE LET f == get_callable_for_event(reg, event, event_config,
                                               "NSWorkspace Notification")
               IN  IF ~f.ok
                   THEN [ok |-> FALSE, exc |-> f.exc, reg |-> f.reg, tbl |-> observers]
                   ELSE add_workspace_loop(f.reg, (event :> f.val) @@ observers,
                                           Tail(entries))

\* the loop of add_sc_notifications over the keys
RECURSIVE add_sc_loop(_, _, _)
add_sc_loop(reg, handlers, entries) ==
    IF entries = <<>> THEN [ok |-> TRUE, exc |-> "none", reg |-> reg, tbl |-> handlers]
    ELSE
      LET key == Head(entries).name
          f   == get_callable_for_event(reg, key, Head(entries).cfg, "SystemConfiguration")
      IN  IF ~f.ok
          THEN [ok |-> FALSE,
                exc |-> IF f.exc = "AttributeError" THEN "SystemExit" ELSE f.exc,
                reg |-> f.reg, tbl |-> handlers]
          ELSE add_sc_loop(f.reg, (key :> f.val) @@ handlers, Tail(entries))

\* add_fs_notification without the test of os.path.exists
add_fs_notification_unchecked(watched, f_path, callback) ==
    LET path0 == realpath(expanduser(f_path))
        path  == IF isdir(path0) THEN path0 ELSE dirname(path0)
    IN  IF path \in DOMAIN watched
        THEN [ok |-> TRUE, exc |-> "none",
              tbl |-> [watched EXCEPT ![path] = Append(@, callback)]]
        ELSE [ok |-> TRUE, exc |-> "none", tbl |-> (path :> <<callback>>) @@ watched]

\* add_fs_notification that tests os.path.exists after the registration
add_fs_notification_late(watched, f_path, callback) ==
    LET path0 == realpath(expanduser(f_path))
        path  == IF isdir(path0) THEN path0 ELSE dirname(path0)
        tbl   == IF path \in DOMAIN watched
                 THEN [watched EXCEPT ![path] = Append(@, callback)]
                 ELSE (path :> <<callback>>) @@ watched
    IN  IF ~exists(path0)
        THEN [ok |-> FALSE, exc |-> "AttributeError", tbl |-> tbl]
        ELSE [ok |-> TRUE, exc |-> "none", tbl |-> tbl]

\* add_fs_notification that assigns a new list on every registration
add_fs_notification_overwrite(watched, f_path, callback) ==
    LET path0 == realpath(expanduser(f_path))
        path  == IF isdir(path0) THEN path0 ELSE dirname(path0)
    IN  IF ~exists(path0)
        THEN [ok |-> FALSE, exc |-> "AttributeError", tbl |-> watched]
        ELSE [ok |-> TRUE, exc |-> "none",
              tbl |-> (path :> <<callback>>) @@ watched]

\* add_fs_notification, on the watch index
add_fs_notification(watched, f_path, callback) ==
    LET path0 == realpath(expanduser(f_path))
        path  == IF isdir(path0) THEN path0 ELSE dirname(path0)
    IN  IF ~exists(path0)
        THEN [ok |-> FALSE, exc |-> "AttributeError", tbl |-> watched]
        ELSE IF path \in DOMAIN watched
             THEN [ok |-> TRUE, exc |-> "none",
                   tbl |-> [watched EXCEPT ![path] = Append(@, callback)]]
             ELSE [ok |-> TRUE, exc |-> "none",
                   tbl |-> (path :> <<callback>>) @@ watched]

\* add_fs_notifications
RECURSIVE add_fs_notifications(_, _, _)
add_fs_notifications(reg, watched, entries) ==
    IF entries = <<>> THEN [ok |-> TRUE, exc |-> "none", reg |-> reg, tbl |-> watched]
    ELSE
      LET path == Head(entries).name
          f    == get_callable_for_event(reg, path, Head(entries).cfg, "FSEvent")
      IN  IF ~f.ok
          THEN [ok |-> FALSE, exc |-> f.exc, reg |-> f.reg, tbl |-> watched]
          ELSE LET a == add_fs_notification(watched, path, f.val)
               IN  IF ~a.ok
                   THEN [ok |-> FALSE, exc |-> a.exc, reg |-> f.reg, tbl |-> a.tbl]
                   ELSE add_fs_notifications(f.reg, a.tbl, Tail(entries))

\* while not os.path.exists(file_name): file_name = os.path.dirname(file_name)
RECURSIVE existing_ancestor(_)
existing_ancestor(file_name) ==
    IF exists(file_name) THEN file_name ELSE existing_ancestor(dirname(file_name))

\* add_conditional_restart: the closure keeps file_name and orig_stat
add_conditional_restart(watched, file_name0) ==
    LET file_name == existing_ancestor(realpath(file_name0))
        orig_stat == st_mtime(file_name)
    IN  add_fs_notification(watched, file_name,
            [NoHandle EXCEPT !.kind = "cond_restart", !.file_name = file_name,
                             !.orig_stat = orig_stat, !.key = file_name0,
                             !.context = "restart"])

\* the modules of sys.modules that have a __file__
LoadedModules == <<ModuleFile>>

RECURSIVE add_conditional_restarts(_, _)
add_conditional_restarts(watched, file_names) ==
    IF file_names = <<>> THEN [ok |-> TRUE, exc |-> "none", tbl |-> watched]
    ELSE LET a == add_conditional_restart(watched, Head(file_names))
         IN  IF ~a.ok THEN a ELSE add_conditional_restarts(a.tbl, Tail(file_names))

Section(name) ==
    IF name \in DOMAIN CRANKD_CONFIG THEN CRANKD_CONFIG[name] ELSE <<>>

\* an uncaught exception or sys.exit(1) during start-up
Abort ==
    /\ state' = "Terminated"
    /\ exit_status' = 1
    /\ UNCHANGED pc

\* main(), lines 425-433: the configuration is read; a missing file is
\* replaced by the example configuration and the process exits with 1
Main ==
    /\ state = "Idle"
    /\ IF ConfigFile \in files
       THEN /\ \E c \in Configs : CRANKD_CONFIG' = c
            /\ state' = "Starting"
            /\ pc' = "nsw"
            /\ UNCHANGED <<exit_status, files>>
       ELSE /\ files' = files \cup {ConfigFile}
            /\ Abort
            /\ UNCHANGED CRANKD_CONFIG
    /\ UNCHANGED <<stop_reason, registries, sighup, mtime, loop>>

AddWorkspaceNotifications ==
    /\ state = "Starting" /\ pc = "nsw"
    /\ LET r == add_workspace_loop([objs |-> HANDLER_OBJECTS, made |-> made],
                                   NSW_OBSERVERS, Section("NSWorkspace"))
       IN  /\ HANDLER_OBJECTS' = r.reg.objs
           /\ made' = r.reg.made
           /\ NSW_OBSERVERS' = r.tbl
           /\ IF r.ok THEN pc' = "sc" /\ UNCHANGED <<state, exit_status>> ELSE Abort
    /\ UNCHANGED <<stop_reason, CRANKD_CONFIG, SC_HANDLERS, FS_WATCHED_FILES, fs_keys,
                   sighup, environment, loop>>

AddScNotifications ==
    /\ state = "Starting" /\ pc = "sc"
    /\ LET r == add_sc_loop([objs |-> HANDLER_OBJECTS, made |-> made],
                            SC_HANDLERS, Section("SystemConfiguration"))
       IN  /\ HANDLER_OBJECTS' = r.reg.objs
           /\ made' = r.reg.made
           /\ SC_HANDLERS' = r.tbl
           /\ IF r.ok THEN pc' = "fs" /\ UNCHANGED <<state, exit_status>> ELSE Abort
    /\ UNCHANGED <<stop_reason, CRANKD_CONFIG, NSW_OBSERVERS, FS_WATCHED_FILES, fs_keys,
                   sighup, environment, loop>>

AddFsNotifications ==
    /\ state = "Starting" /\ pc = "fs"
    /\ LET r == add_fs_notifications([objs |-> HANDLER_OBJECTS, made |-> made],
                                     FS_WATCHED_FILES, Section("FSEvents"))
       IN  /\ HANDLER_OBJECTS' = r.reg.objs
           /\ made' = r.reg.made
           /\ FS_WATCHED_FILES' = r.tbl
           /\ IF r.ok THEN pc' = "restart" /\ UNCHANGED <<state, exit_status>> ELSE Abort
    /\ UNCHANGED <<stop_reason, CRANKD_CONFIG, NSW_OBSERVERS, SC_HANDLERS, fs_keys,
                   sighup, environment, loop>>

\* main(), lines 446-448
AddConditionalRestarts ==
    /\ state = "Starting" /\ pc = "restart"
    /\ LET r == add_conditional_restarts(FS_WATCHED_FILES, <<ConfigFile>> \o LoadedModules)
       IN  /\ FS_WATCHED_FILES' = r.tbl
           /\ IF r.ok THEN pc' = "signal" /\ UNCHANGED <<state, exit_status>> ELSE Abort
    /\ UNCHANGED <<stop_reason, CRANKD_CONFIG, HANDLER_OBJECTS, made, NSW_OBSERVERS,
                   SC_HANDLERS, fs_keys, sighup, environment, loop>>

\* main(), line 450
InstallSignal ==
    /\ state = "Starting" /\ pc = "signal"
    /\ sighup' = TRUE
    /\ pc' = "stream"
    /\ UNCHANGED <<state, exit_status, stop_reason, CRANKD_CONFIG, registries,
                   environment, loop>>

\* the sequences that list every element of a set once
Orders(S) ==
    {q \in [1 .. Cardinality(S) -> S] : \A x \in S : \E k \in DOMAIN q : q[k] = x}

\* start_fs_events: the stream is created for FS_WATCHED_FILES.keys() and
\* started
StartFsEvents ==
    /\ state = "Starting" /\ pc = "stream"
    /\ fs_keys' \in Orders(DOMAIN FS_WATCHED_FILES)
    /\ pc' = "runloop"
    /\ UNCHANGED <<state, exit_status, stop_reason, CRANKD_CONFIG, HANDLER_OBJECTS, made,
                   NSW_OBSERVERS, SC_HANDLERS, FS_WATCHED_FILES, sighup, environment,
                   loop>>

\* start_fs_events raises RuntimeError: FSEventStreamCreate or
\* FSEventStreamStart failed
StartFsEventsFails ==
    /\ state = "Starting" /\ pc = "stream"
    /\ Abort
    /\ UNCHANGED <<stop_reason, CRANKD_CONFIG, registries, sighup, environment, loop>>

\* main(), lines 457-464: the timer is added and the run loop entered
RunConsoleEventLoop ==
    /\ state = "Starting" /\ pc = "runloop"
    /\ state' = "Running"
    /\ UNCHANGED <<pc, exit_status, stop_reason, CRANKD_CONFIG, registries, sighup,
                   environment, loop>>

\* ------------------------------------------------------------ the run loop
Unbound == [bound |-> FALSE, val |-> FALSE]
Bound(v) == [bound |-> TRUE, val |-> v]

\* the three tests without the else branch: with no flag set the local
\* variable keeps what the iteration before left in it
recursive_after_leftover(prev, mask) ==
    LET r1 == IF BitAnd(mask, kFSEventStreamEventFlagMustScanSubDirs) # 0
              THEN Bound(TRUE) ELSE prev
        r2 == IF BitAnd(mask, kFSEventStreamEventFlagUserDropped) # 0
              THEN Bound(TRUE) ELSE r1
    IN  IF BitAnd(mask, kFSEventStreamEventFlagKernelDropped) # 0
        THEN Bound(TRUE) ELSE r2

\* fsevent_callback, lines 400-411: the local variable recursive after the
\* three tests on masks[i]; prev is its value from the iteration before
recursive_after(prev, mask) ==
    LET r1 == IF BitAnd(mask, kFSEventStreamEventFlagMustScanSubDirs) # 0
              THEN Bound(TRUE) ELSE prev
        r2 == IF BitAnd(mask, kFSEventStreamEventFlagUserDropped) # 0
              THEN Bound(TRUE) ELSE r1
    IN  IF BitAnd(mask, kFSEventStreamEventFlagKernelDropped) # 0
        THEN Bound(TRUE) ELSE Bound(FALSE)

\* a dispatch that remembers the event before: the roots served by it are
\* left out
matching_roots_debounced(path) ==
    SelectSeq(fs_keys,
              LAMBDA k : /\ startswith(path, k)
                         /\ \A n \in 1 .. Len(ev.plan) : ev.plan[n].root # k)

\* [k for k in FS_WATCHED_FILES if path.startswith(k)]
matching_roots(path) ==
    SelectSeq(fs_keys, LAMBDA k : startswith(path, k))

\* the calls of lines 413-416 in their order: every handler of every
\* matching root
RECURSIVE fs_queue(_)
fs_queue(roots) ==
    IF roots = <<>> THEN <<>>
    ELSE [n \in 1 .. Len(FS_WATCHED_FILES[Head(roots)]) |->
             [root |-> Head(roots), h |-> FS_WATCHED_FILES[Head(roots)][n]]]
         \o fs_queue(Tail(roots))

\* a cond_restart among the calls watches a file that exists and has left
\* the modification time recorded at start-up
Diverged(queue) ==
    \E n \in 1 .. Len(queue) :
        /\ queue[n].h.kind = "cond_restart"
        /\ exists(queue[n].h.file_name)
        /\ st_mtime(queue[n].h.file_name) # queue[n].h.orig_stat

\* a run loop that hands an event over at any time, whatever is in progress
Idling_anytime == state = "Running"

\* the run loop of main(), line 464, the one place the sources and the timer
\* are scheduled on: it hands over the next event when the callback before
\* has returned
Idling == state = "Running" /\ cb.kind = "none" /\ exc = "none"

\* the record of one call of a handler's action
Call(q, result) ==
    [h |-> q.h, root |-> q.root, key |-> ev.key, path |-> ev.path,
     recursive |-> ev.recursive, result |-> result]

\* the calls with a cond_restart that calls restart() whatever os.stat
\* reports about the file
Outcomes_unconditional(src, h) ==
    CASE h.kind = "command" ->
            IF src = "fs" THEN {"TypeError"}
            ELSE {"rc0", "rcpos", "rcneg", "OSError-TypeError"}
      [] h.kind = "function" ->
            IF BodyRaises(h.func, "") THEN {"raised"} ELSE {"returned"}
      [] h.kind \in {"method", "delegate"} ->
            IF BodyRaises(h.inst.class, h.meth) THEN {"raised"} ELSE {"returned"}
      [] h.kind = "cond_restart" -> {"restart"}
      [] OTHER -> {"TypeError"}

\* what one call of a callable does: "TypeError" and the like when it
\* raises, "restart" when it calls restart(), otherwise how it returned
\*   - do_shell bound by partial() and called with the root as a positional
\*     argument receives context twice
\*   - do_shell's OSError branch fails in its own log statement
\*   - os.stat raises OSError, which cond_restart does not catch
Outcomes(src, h) ==
    CASE h.kind = "command" ->
            IF src = "fs" THEN {"TypeError"}
            ELSE {"rc0", "rcpos", "rcneg", "OSError-TypeError"}
      [] h.kind = "function" ->
            IF BodyRaises(h.func, "") THEN {"raised"} ELSE {"returned"}
      [] h.kind \in {"method", "delegate"} ->
            IF BodyRaises(h.inst.class, h.meth) THEN {"raised"} ELSE {"returned"}
      [] h.kind = "cond_restart" ->
            IF ~exists(h.file_name) THEN {"OSError"}
            ELSE IF st_mtime(h.file_name) # h.orig_stat THEN {"restart"}
            ELSE {"returned"}
      [] OTHER -> {"TypeError"}

Raises(result)  == result \in {"TypeError", "OSError-TypeError", "raised", "OSError"}
\* the action of the handler was entered (the command was handed to
\* call(), the function or method body ran)
Entered(result) == result \notin {"TypeError", "OSError"}

\* the callback's frame once the event at hand is finished
AfterEvent(c) == IF c.i = c.count THEN NoCb ELSE c

\* NotificationHandler.onNotification_ (or the delegate's method): one
\* notification, one callable
WorkspaceNotification ==
    /\ Idling
    /\ \E event \in DOMAIN NSW_OBSERVERS :
          /\ cb' = [NoCb EXCEPT !.kind = "nsw", !.count = 1, !.i = 1]
          /\ ev' = [NoEv EXCEPT !.src = "nsw", !.key = event, !.status = "running",
                       !.plan = <<[root |-> <<>>, h |-> NSW_OBSERVERS[event]]>>]
    /\ calls' = <<>>
    /\ UNCHANGED <<state, pc, exit_status, stop_reason, CRANKD_CONFIG, registries, sighup,
                   environment, exc>>

\* handle_sc_event is entered with a batch of changed keys
HandleScEvent ==
    /\ Idling
    /\ DOMAIN SC_HANDLERS # {}
    /\ \E n \in 1 .. MaxBatch : cb' = [NoCb EXCEPT !.kind = "sc", !.count = n]
    /\ ev' = NoEv
    /\ calls' = <<>>
    /\ UNCHANGED <<state, pc, exit_status, stop_reason, CRANKD_CONFIG, registries, sighup,
                   environment, exc>>

\* for key in changed_keys
ScNextKey ==
    /\ state = "Running" /\ cb.kind = "sc" /\ ev.status # "running"
    /\ cb.i < cb.count
    /\ \E key \in DOMAIN SC_HANDLERS :
          ev' = [NoEv EXCEPT !.src = "sc", !.key = key, !.status = "running",
                    !.plan = <<[root |-> <<>>, h |-> SC_HANDLERS[key]]>>]
    /\ cb' = [cb EXCEPT !.i = @ + 1]
    /\ calls' = <<>>
    /\ UNCHANGED <<state, pc, exit_status, stop_reason, CRANKD_CONFIG, registries, sighup,
                   environment, exc>>

\* fsevent_callback is entered with a batch of event_count events
FsEventCallback ==
    /\ Idling
    /\ \E n \in 1 .. MaxBatch : cb' = [NoCb EXCEPT !.kind = "fs", !.count = n]
    /\ ev' = NoEv
    /\ calls' = <<>>
    /\ UNCHANGED <<state, pc, exit_status, stop_reason, CRANKD_CONFIG, registries, sighup,
                   environment, exc>>

\* for i in range(event_count): lines 398-413, up to the list of roots
FsNextEvent ==
    /\ state = "Running" /\ cb.kind = "fs" /\ ev.status # "running"
    /\ cb.i < cb.count
    /\ \E changed \in ChangedPaths, mask \in Masks :
          LET path      == dirname(changed)
              recursive == recursive_after(cb.recursive, mask)
              queue     == fs_queue(matching_roots(path))
              c         == [cb EXCEPT !.i = @ + 1, !.recursive = recursive]
          IN  /\ ev' = [NoEv EXCEPT !.src = "fs", !.key = changed, !.changed = changed,
                           !.path = path, !.mask = mask, !.recursive = recursive.val,
                           !.plan = queue,
                           !.diverged = Diverged(queue),
                           !.status = IF queue = <<>> THEN "done" ELSE "running"]
              /\ cb' = IF queue = <<>> THEN AfterEvent(c) ELSE c
    /\ calls' = <<>>
    /\ UNCHANGED <<state, pc, exit_status, stop_reason, CRANKD_CONFIG, registries, sighup,
                   environment, exc>>

\* one call of a callable: SC_HANDLERS[key](key=key, info=info),
\* self.callable(user_info=user_info) or j(i, path=path, recursive=recursive)
Invoke ==
    /\ state = "Running" /\ cb.kind # "none" /\ ev.status = "running"
    /\ LET q    == ev.plan[ev.done + 1]
           last == ev.done + 1 = Len(ev.plan)
       IN  \E result \in Outcomes(ev.src, q.h) :
             /\ calls' = IF Entered(result) THEN Append(calls, Call(q, result)) ELSE calls
             /\ IF Raises(result)
                THEN /\ ev' = [ev EXCEPT !.status = "raised", !.done = @ + 1]
                     /\ cb' = NoCb
                     /\ exc' = result
                     /\ UNCHANGED <<state, stop_reason>>
                ELSE IF result = "restart"
                THEN /\ ev' = [ev EXCEPT !.status = "restarted", !.done = @ + 1]
                     /\ cb' = NoCb
                     /\ state' = "Stopping"
                     /\ stop_reason' = "restart"
                     /\ UNCHANGED exc
                ELSE /\ ev' = [ev EXCEPT !.done = @ + 1,
                                  !.status = IF last THEN "done" ELSE "running"]
                     /\ cb' = IF last THEN AfterEvent(cb) ELSE cb
                     /\ UNCHANGED <<state, stop_reason, exc>>
    /\ UNCHANGED <<pc, exit_status, CRANKD_CONFIG, registries, sighup, environment>>

\* timer_callback: the timer of main(), lines 457-460, fires; the callback
\* writes a debug line and returns
TimerCallback ==
    /\ Idling
    /\ ev' = [NoEv EXCEPT !.src = "timer", !.status = "done"]
    /\ calls' = <<>>
    /\ UNCHANGED <<state, pc, exit_status, stop_reason, CRANKD_CONFIG, registries, sighup,
                   environment, cb, exc>>

\* the exception that left a callback is reported and the run loop goes on
ExceptionLogged ==
    /\ state = "Running" /\ exc # "none"
    /\ exc' = "none"
    /\ UNCHANGED <<state, pc, exit_status, stop_reason, CRANKD_CONFIG, registries, sighup,
                   environment, cb, ev, calls>>

\* the exception leaves runConsoleEventLoop: main() catches KeyboardInterrupt
\* only, the process ends with a traceback
ExceptionFatal ==
    /\ state = "Running" /\ exc # "none"
    /\ Abort
    /\ UNCHANGED <<stop_reason, CRANKD_CONFIG, registries, sighup, environment, loop>>

\* SIGHUP: partial(restart, "SIGHUP received")
Sighup ==
    /\ sighup /\ state \in {"Starting", "Running"}
    /\ state' = "Stopping"
    /\ stop_reason' = "SIGHUP received"
    /\ cb' = NoCb
    /\ ev' = IF ev.status = "running" THEN [ev EXCEPT !.status = "restarted"] ELSE ev
    /\ exc' = "none"
    /\ UNCHANGED <<pc, exit_status, CRANKD_CONFIG, registries, sighup, environment, calls>>

\* the reasons restart() is called with: by cond_restart, by the handler of
\* SIGHUP
RestartReasons == {"restart", "SIGHUP received"}

\* a restart() that ends the process instead of replacing it
Execv_exit ==
    /\ state = "Stopping" /\ stop_reason \in RestartReasons
    /\ state' = "Terminated"
    /\ exit_status' = 0
    /\ UNCHANGED <<pc, stop_reason, CRANKD_CONFIG, registries, sighup, environment, loop>>

\* restart(): os.execv(sys.argv[0], sys.argv) replaces the process image
Execv ==
    /\ state = "Stopping" /\ stop_reason \in RestartReasons
    /\ state' = "Idle"
    /\ pc' = "main"
    /\ stop_reason' = "none"
    /\ CRANKD_CONFIG' = [x \in {} |-> <<>>]
    /\ HANDLER_OBJECTS' = [x \in {} |-> NoInst]
    /\ made' = NoMade
    /\ NSW_OBSERVERS' = EmptyFn
    /\ SC_HANDLERS' = EmptyFn
    /\ FS_WATCHED_FILES' = [x \in {} |-> <<>>]
    /\ fs_keys' = <<>>
    /\ sighup' = FALSE
    /\ cb' = NoCb /\ ev' = NoEv /\ calls' = <<>> /\ exc' = "none"
    /\ UNCHANGED <<exit_status, environment>>

\* main(), lines 465-466: KeyboardInterrupt leaves the run loop
KeyboardInterrupt ==
    /\ Idling
    /\ state' = "Stopping"
    /\ stop_reason' = "interrupt"
    /\ UNCHANGED <<pc, exit_status, CRANKD_CONFIG, registries, sighup, environment, loop>>

\* main(), line 468
SysExit ==
    /\ state = "Stopping" /\ stop_reason = "interrupt"
    /\ state' = "Terminated"
    /\ exit_status' = 0
    /\ UNCHANGED <<pc, stop_reason, CRANKD_CONFIG, registries, sighup, environment, loop>>

\* ---------------------------------------------------------- environment
\* a tracked file is written: its modification time advances
Touch ==
    /\ state \in {"Starting", "Running"}
    /\ \E f \in files :
          /\ mtime[f] < MaxMtime
          /\ mtime' = [mtime EXCEPT ![f] = @ + 1]
    /\ UNCHANGED <<state, pc, exit_status, stop_reason, CRANKD_CONFIG, registries, sighup,
                   files, loop>>

\* the configuration file is removed
Remove ==
    /\ state \in {"Starting", "Running"}
    /\ ConfigFile \in files
    /\ files' = files \ {ConfigFile}
    /\ UNCHANGED <<state, pc, exit_status, stop_reason, CRANKD_CONFIG, registries, sighup,
                   mtime, loop>>

Next ==
    \/ Main
    \/ AddWorkspaceNotifications
    \/ AddScNotifications
    \/ AddFsNotifications
    \/ AddConditionalRestarts
    \/ InstallSignal
    \/ StartFsEvents
    \/ StartFsEventsFails
    \/ RunConsoleEventLoop
    \/ WorkspaceNotification
    \/ HandleScEvent
    \/ ScNextKey
    \/ FsEventCallback
    \/ FsNextEvent
    \/ Invoke
    \/ TimerCallback
    \/ ExceptionLogged
    \/ ExceptionFatal
    \/ Sighup
    \/ Execv
    \/ KeyboardInterrupt
    \/ SysExit
    \/ Touch
    \/ Remove

Spec == Init /\ [][Next]_vars

\* ================================================================ claims
HasFlag(mask, flag) == BitAnd(mask, flag) # 0

\* the calls of the event at hand that have been made (the last of them
\* may have raised)
Made == 1 .. ev.done
\* the event at hand is over and the process image is still the same
EventOver == ev.status \in {"done", "raised"}
\* how often the action of the k-th planned call was carried out
Times(k) ==
    Cardinality({n \in 1 .. Len(calls) :
                    calls[n].h = ev.plan[k].h /\ calls[n].root = ev.plan[k].root})
Configured(h) == h.kind \in {"command", "function", "method", "delegate"}

\* C1: for a filesystem event with the user-side or the kernel-side
\* overflow flag set, every handler fired for the event receives
\* recursive = TRUE, whatever the other two flags are.
C1_DropFlagMonotonicity ==
    (ev.src = "fs"
       /\ (HasFlag(ev.mask, kFSEventStreamEventFlagUserDropped)
             \/ HasFlag(ev.mask, kFSEventStreamEventFlagKernelDropped)))
    => \A n \in 1 .. Len(calls) : calls[n].recursive = TRUE

\* C2: no handler registered on a root R is invoked for a changed path P
\* unless R is a prefix, by whole path components, of dirname(P).
C2_NoFireOutsideRoot ==
    ev.src = "fs"
    => \A n \in 1 .. Len(calls) : IsPathPrefix(calls[n].root, dirname(ev.changed))

\* C3: once a filesystem event has been dispatched, every handler of every
\* registered root that is a prefix of dirname(P) has been invoked.
C3_AllMatchingRootsFire ==
    (ev.src = "fs" /\ EventOver)
    => \A root \in DOMAIN FS_WATCHED_FILES :
          IsPathPrefix(root, dirname(ev.changed))
          => \A n \in 1 .. Len(FS_WATCHED_FILES[root]) :
                \E k \in Made : ev.plan[k] = [root |-> root,
                                              h |-> FS_WATCHED_FILES[root][n]]

\* every callable the registries hold
Registered ==
    {NSW_OBSERVERS[e] : e \in DOMAIN NSW_OBSERVERS}
      \cup {SC_HANDLERS[k] : k \in DOMAIN SC_HANDLERS}
      \cup UNION {{FS_WATCHED_FILES[r][n] : n \in 1 .. Len(FS_WATCHED_FILES[r])} :
                     r \in DOMAIN FS_WATCHED_FILES}
OnInstance(h) == h.kind \in {"method", "delegate"}

\* C4: a class name is constructed at most once in a process, and every
\* callable resolved for that class name is bound to the one instance held
\* in HANDLER_OBJECTS.
C4_SingleInstance ==
    /\ \A c \in ClassNames : made[c] <= 1
    /\ \A h \in Registered :
          OnInstance(h) => /\ h.inst.name \in DOMAIN HANDLER_OBJECTS
                           /\ HANDLER_OBJECTS[h.inst.name] = h.inst

\* the class K is named by the workspace section, by two dynamic-store keys
\* and by a filesystem path: four callables, one instance, one construction
C4_Witness ==
    /\ state = "Running"
    /\ made[<<"K">>] = 1
    /\ Wake \in DOMAIN NSW_OBSERVERS /\ K1 \in DOMAIN SC_HANDLERS
    /\ K2 \in DOMAIN SC_HANDLERS /\ P_a_b \in DOMAIN FS_WATCHED_FILES
    /\ OnInstance(SC_HANDLERS[K1]) /\ OnInstance(SC_HANDLERS[K2])
    /\ SC_HANDLERS[K1].meth # SC_HANDLERS[K2].meth
    /\ SC_HANDLERS[K1].inst = SC_HANDLERS[K2].inst
    /\ NSW_OBSERVERS[Wake].inst = SC_HANDLERS[K1].inst
    /\ FS_WATCHED_FILES[P_a_b][1].inst = SC_HANDLERS[K1].inst

\* C5: invoking a resolved handler never raises to its caller.
C5_InvocationNeverRaises ==
    ev.status # "raised" /\ exc = "none"

\* C6: when a tracked file has left its baseline, the next filesystem event
\* for its directory ends in a restart request: the event is never over
\* with the divergence still there and no restart raised.
C6_RestartOnDivergence ==
    (ev.src = "fs" /\ ev.diverged /\ TrackedFiles \subseteq files)
    => ~EventOver

\* C7: a failing stat of a tracked file becomes a restart request; the
\* failure does not leave the filesystem callback as an exception.
C7_StatFailureRestarts ==
    exc # "OSError"

\* the configuration entries that cannot be set up
Unresolvable(section, e) ==
    LET c == e.cfg
    IN  IF section = "NSWorkspace" /\ "class" \in DOMAIN c
        THEN \/ ~get_callable_from_string(c.class).ok
             \/ py_method(e.name)
                  \notin Methods(get_callable_from_string(c.class).val)
        ELSE IF "command" \in DOMAIN c THEN FALSE
        ELSE IF "function" \in DOMAIN c THEN ~get_callable_from_string(c.function).ok
        ELSE IF "method" \in DOMAIN c
        THEN \/ ~get_callable_from_string(c.method[1]).ok
             \/ c.method[2] \notin Methods(get_callable_from_string(c.method[1]).val)
        ELSE TRUE
MissingPath(section, e) ==
    section = "FSEvents" /\ ~exists(realpath(expanduser(e.name)))
FaultIn(section) ==
    /\ section \in DOMAIN CRANKD_CONFIG
    /\ \E n \in 1 .. Len(CRANKD_CONFIG[section]) :
          \/ Unresolvable(section, CRANKD_CONFIG[section][n])
          \/ MissingPath(section, CRANKD_CONFIG[section][n])
\* the statements of main() a process with such a configuration can be at
PcUpTo(section) ==
    CASE section = "NSWorkspace"         -> {"nsw"}
      [] section = "SystemConfiguration" -> {"nsw", "sc"}
      [] OTHER                           -> {"nsw", "sc", "fs"}
Sections == {"NSWorkspace", "SystemConfiguration", "FSEvents"}
NothingDispatched == ev = NoEv /\ calls = <<>> /\ cb = NoCb

\* C8: with a handler that cannot be resolved or a watch path that does
\* not exist, the process never gets past the statement that sets that
\* section up, dispatches nothing, and when it has ended its status is 1;
\* the same holds when the filesystem stream cannot be started.
C8_FatalStartup ==
    /\ \A section \in Sections :
          FaultIn(section)
          => /\ state \in {"Starting", "Terminated"}
             /\ pc \in PcUpTo(section)
             /\ NothingDispatched
             /\ (state = "Terminated" => exit_status = 1)
    /\ (state = "Terminated" /\ pc = "stream")
          => (exit_status = 1 /\ NothingDispatched)

C8_Witness ==
    /\ state = "Terminated" /\ exit_status = 1 /\ pc = "fs"
    /\ FaultIn("FSEvents")
    /\ \E n \in 1 .. Len(CRANKD_CONFIG["FSEvents"]) :
          MissingPath("FSEvents", CRANKD_CONFIG["FSEvents"][n])

\* C9: every call made for a dispatched event carries out the action the
\* entry describes exactly once, for each kind of entry and each source.
C9_ExactlyOneAction ==
    \A k \in Made : Configured(ev.plan[k].h) => Times(k) = 1

\* C10: a handler invoked for a filesystem event runs its action with
\* root = R, path = dirname(P) and the recursive flag; a command handler on
\* /a runs its command once, with path = /a/b and recursive = FALSE, for a
\* change of /a/b/x with no flag set.
C10_FsDispatchArguments ==
    /\ ev.src = "fs"
       => \A k \in Made :
             Configured(ev.plan[k].h)
             => \E n \in 1 .. Len(calls) :
                   /\ calls[n].h = ev.plan[k].h
                   /\ calls[n].root = ev.plan[k].root
                   /\ calls[n].path = dirname(ev.changed)
                   /\ calls[n].recursive = ev.recursive
    /\ (ev.src = "fs" /\ EventOver /\ CRANKD_CONFIG = CfgCommands
          /\ ev.changed = <<"/", "a", "/", "b", "/", "x">> /\ ev.mask = 0)
       => Cardinality({n \in 1 .. Len(calls) :
                          /\ calls[n].h.kind = "command"
                          /\ calls[n].h.command = "echo"
                          /\ calls[n].root = P_a
                          /\ calls[n].path = P_a_b
                          /\ calls[n].recursive = FALSE}) = 1

\* the names a section of the configuration lists
Names(section) == {Section(section)[n].name : n \in 1 .. Len(Section(section))}
\* a conditional restart for file_name is among the watches
Baseline(file_name) ==
    \E r \in DOMAIN FS_WATCHED_FILES : \E n \in 1 .. Len(FS_WATCHED_FILES[r]) :
        /\ FS_WATCHED_FILES[r][n].kind = "cond_restart"
        /\ FS_WATCHED_FILES[r][n].key = file_name
\* every configured watch is installed, the restart baseline is captured,
\* the handler of SIGHUP is set and the stream runs on the watched roots
Installed ==
    /\ DOMAIN NSW_OBSERVERS = Names("NSWorkspace")
    /\ DOMAIN SC_HANDLERS = Names("SystemConfiguration")
    /\ \A p \in Names("FSEvents") :
          \E r \in DOMAIN FS_WATCHED_FILES : \E n \in 1 .. Len(FS_WATCHED_FILES[r]) :
              FS_WATCHED_FILES[r][n].key = p
    /\ Baseline(ConfigFile) /\ Baseline(ModuleFile)
    /\ sighup
    /\ {fs_keys[n] : n \in 1 .. Len(fs_keys)} = DOMAIN FS_WATCHED_FILES
    /\ DOMAIN FS_WATCHED_FILES # {}
ColdStart ==
    /\ pc = "main"
    /\ DOMAIN NSW_OBSERVERS = {} /\ DOMAIN SC_HANDLERS = {}
    /\ DOMAIN FS_WATCHED_FILES = {} /\ DOMAIN HANDLER_OBJECTS = {}
    /\ fs_keys = <<>> /\ ~sighup

\* the steps of the lifecycle: forward along Idle, Starting, Running,
\* Stopping, Terminated; a fatal start-up ends with a status other than 0;
\* a restart request replaces the process by a cold start
LifecycleStep ==
    \/ state' = state
    \/ state = "Idle" /\ state' = "Starting"
    \/ state \in {"Idle", "Starting"} /\ state' = "Terminated" /\ exit_status' # 0
    \/ state = "Starting" /\ state' = "Running" /\ Installed'
    \/ state \in {"Starting", "Running"} /\ state' = "Stopping"
         /\ stop_reason' \in {"interrupt"} \cup RestartReasons
    \/ state = "Stopping" /\ stop_reason = "interrupt"
         /\ state' = "Terminated" /\ exit_status' = 0
    \/ state = "Stopping" /\ stop_reason \in RestartReasons
         /\ state' = "Idle" /\ ColdStart'

\* C11: the daemon only moves Idle, Starting, Running, Stopping,
\* Terminated; Running is entered only with every watch installed, the
\* baseline captured, the signal handler set and the stream started; Stopping
\* is entered only by an interrupt or a restart request; an interrupt ends
\* in exit status 0, a restart request in a cold start of the same program.
C11_Lifecycle == [][LifecycleStep]_vars

InProgress == cb.kind # "none"
\* a step with which a callback is entered: a batch of filesystem events or
\* of keys, a workspace notification or a timer tick begins to be processed
Delivered ==
    /\ <<cb, ev>>' # <<cb, ev>>
    /\ \/ cb'.kind \in {"sc", "fs"} /\ cb'.i = 0
       \/ cb'.kind = "nsw" /\ ev'.done = 0
       \/ ev'.src = "timer"
\* a step that goes on with the callback in progress or ends it
Continues ==
    \/ cb' = NoCb
    \/ cb'.kind = cb.kind /\ cb'.count = cb.count /\ cb'.i \in {cb.i, cb.i + 1}

\* C12: at most one callback body is executing: no event and no timer tick
\* begins to be processed while a callback is in progress or its exception
\* is still on its way, and every step taken while a callback is in
\* progress belongs to that callback's batch or ends the callback.
C12_NoPreemption ==
    [][/\ Delivered => (~InProgress /\ exc = "none")
       /\ InProgress => Continues]_vars

\* the second event of a batch is half-way through its handlers
C12_Witness ==
    /\ cb.kind = "fs" /\ cb.count = 2 /\ cb.i = 2
    /\ ev.status = "running" /\ ev.done = 1 /\ Len(ev.plan) >= 2
    /\ Len(calls) = 1

\* a step in which the action of a handler fails
Failed == ev.status = "running" /\ ev'.status = "raised"

\* C13: when the action of one handler fails, the callback goes on with
\* the other handlers of the event and the later events or keys of its
\* batch, and the daemon does not leave Running over it.
C13_Isolation ==
    [][/\ Failed => cb' = (IF ev'.done = Len(ev.plan) THEN AfterEvent(cb) ELSE cb)
       /\ (state = "Running" /\ exc # "none") => state' # "Terminated"]_vars

\* what a delivery of the event at hand leads to, computed from the event
\* and the tables as they are now, with a fresh frame of the callback
PlanNow ==
    CASE ev.src = "fs" ->
            fs_queue(SelectSeq(fs_keys, LAMBDA k : startswith(dirname(ev.changed), k)))
      [] ev.src = "sc"  -> <<[root |-> <<>>, h |-> SC_HANDLERS[ev.key]]>>
      [] ev.src = "nsw" -> <<[root |-> <<>>, h |-> NSW_OBSERVERS[ev.key]]>>
      [] OTHER          -> <<>>
RecursiveNow ==
    IF ev.src = "fs" THEN recursive_after(Unbound, ev.mask).val ELSE FALSE
PathNow == IF ev.src = "fs" THEN dirname(ev.changed) ELSE <<>>
ArgumentsNow(c) ==
    c.key = ev.key /\ c.path = PathNow /\ c.recursive = RecursiveNow
\* the invocations of the event are those a delivery of it leads to now
Determined ==
    /\ ev.plan = PlanNow
    /\ Len(calls) <= ev.done
    /\ \A n \in 1 .. Len(calls) :
          /\ ArgumentsNow(calls[n])
          /\ \E k \in n .. ev.done :
                calls[n].h = ev.plan[k].h /\ calls[n].root = ev.plan[k].root
    /\ ev.status = "done"
          => /\ Len(calls) = Len(ev.plan)
             /\ \A n \in 1 .. Len(calls) :
                   calls[n].h = ev.plan[n].h /\ calls[n].root = ev.plan[n].root
\* no step of the running daemon writes to the tables
DispatchFrame == state = "Running" => UNCHANGED registries

\* C14: the invocations of a delivered event and their arguments are
\* determined by the event and the tables alone, so that the same batch
\* delivered again leads to the same invocations; dispatch leaves the watch
\* index, the handler tables and the cache of instances as they were.
C14_DispatchIdempotent == []Determined /\ [][DispatchFrame]_vars

\* an event with three handlers, a function among them, has been dispatched
C14_Witness ==
    /\ ev.src = "fs" /\ ev.status = "done" /\ Len(calls) = 3
    /\ \E n \in 1 .. 3 : calls[n].h.kind = "function"
    /\ state = "Running"

\* C15: with the handler installed, a SIGHUP that is delivered becomes a
\* restart request: the process is Stopping with the replacement of its
\* image ahead, and the one step it takes from there is the cold start of
\* the same program in the same environment, never an exit.
C15_SighupRestarts ==
    /\ [](stop_reason = "SIGHUP received"
            => (sighup /\ state = "Stopping" /\ exit_status = -1 /\ ENABLED Execv))
    /\ [][stop_reason = "SIGHUP received"
            => (state' = "Idle" /\ ColdStart' /\ UNCHANGED <<environment, exit_status>>)]_vars

\* SIGHUP arrived while the handlers of a filesystem event were running
C15_Witness ==
    /\ stop_reason = "SIGHUP received" /\ state = "Stopping"
    /\ ev.src = "fs" /\ ev.status = "restarted" /\ ev.done = 1 /\ Len(ev.plan) > 1

\* C16: for a filesystem event with the must-scan-subdirectories flag set,
\* every handler fired for the event receives recursive = TRUE, also when
\* neither overflow flag is set.
C16_MustScanSubDirs ==
    (ev.src = "fs" /\ HasFlag(ev.mask, kFSEventStreamEventFlagMustScanSubDirs))
    => \A n \in 1 .. Len(calls) : calls[n].recursive

\* what the local variable recursive can hold when an iteration begins
Leftovers == {Unbound, Bound(TRUE), Bound(FALSE)}

\* C17: the recursive argument of an event's handlers is determined by the
\* event's own flags, whatever the iteration before left in the variable,
\* and the variable is bound when a handler is called.
C17_RecursiveOwnFlags ==
    ev.src = "fs"
    => /\ \A prev \in Leftovers : recursive_after(prev, ev.mask) = Bound(ev.recursive)
       /\ ev.status = "running" => (cb.recursive.bound /\ cb.recursive.val = ev.recursive)
       /\ \A n \in 1 .. Len(calls) : calls[n].recursive = ev.recursive

\* the second event of a batch carries no flag and its handler has been
\* called with recursive = FALSE
C17_Witness ==
    /\ ev.src = "fs" /\ cb.kind = "fs" /\ cb.i = 2 /\ ev.mask = 0
    /\ Len(calls) = 1 /\ calls[1].recursive = FALSE /\ calls[1].h.kind = "function"

\* the paths handed to add_fs_notification in the order of main(): the
\* entries of the FSEvents section, the configuration file, the modules
Registrations ==
    [n \in 1 .. Len(Section("FSEvents")) |-> Section("FSEvents")[n].name]
      \o <<ConfigFile>> \o LoadedModules
\* the directory a registered path is watched through
RootOf(f_path) ==
    LET p == realpath(expanduser(f_path))
    IN  IF isdir(p) THEN p ELSE dirname(p)
\* the index holds the first m registrations: every root has the handlers
\* registered on it, in the order of their registration, and nothing else
HoldsFirst(m) ==
    LET done == SubSeq(Registrations, 1, m)
    IN  /\ DOMAIN FS_WATCHED_FILES = {RootOf(done[n]) : n \in 1 .. m}
        /\ \A r \in DOMAIN FS_WATCHED_FILES :
              LET on_r == SelectSeq(done, LAMBDA f : RootOf(f) = r)
              IN  /\ Len(FS_WATCHED_FILES[r]) = Len(on_r)
                  /\ \A n \in 1 .. Len(on_r) : FS_WATCHED_FILES[r][n].key = on_r[n]
\* the index of a process that has not dispatched anything yet, by the
\* statement of main() the process is at
AppendOnly ==
    NothingDispatched
    => CASE pc \in {"signal", "stream", "runloop"} -> HoldsFirst(Len(Registrations))
         [] pc = "restart" -> HoldsFirst(Len(Section("FSEvents")))
         [] pc = "fs"      -> \E m \in 0 .. Len(Section("FSEvents")) : HoldsFirst(m)
         [] OTHER          -> HoldsFirst(0)
\* a step of the start-up keeps every root and every list as a prefix of
\* what it leaves; a step after the start-up leaves the index as it is
KeepsLists ==
    (state' # "Idle" /\ FS_WATCHED_FILES' # FS_WATCHED_FILES)
    => /\ state = "Starting"
       /\ \A r \in DOMAIN FS_WATCHED_FILES :
             /\ r \in DOMAIN FS_WATCHED_FILES'
             /\ Len(FS_WATCHED_FILES[r]) <= Len(FS_WATCHED_FILES'[r])
             /\ SubSeq(FS_WATCHED_FILES'[r], 1, Len(FS_WATCHED_FILES[r]))
                   = FS_WATCHED_FILES[r]

\* C18: the handler list of every watched root holds exactly the handlers
\* registered on that root, a file registering on its parent directory, in
\* the order of registration; no registration overwrites, removes or
\* reorders an earlier one and no root leaves the index.
C18_AppendOnly == []AppendOnly /\ [][KeepsLists]_vars

\* /l and ~/b both resolve to /a/b, and /c carries a configured handler and
\* the two conditional restarts
C18_Witness ==
    /\ state = "Running"
    /\ P_a_b \in DOMAIN FS_WATCHED_FILES /\ P_c \in DOMAIN FS_WATCHED_FILES
    /\ Len(FS_WATCHED_FILES[P_a_b]) = 2
    /\ FS_WATCHED_FILES[P_a_b][1].key = P_link /\ FS_WATCHED_FILES[P_a_b][2].key = P_home
    /\ Len(FS_WATCHED_FILES[P_c]) = 3
    /\ FS_WATCHED_FILES[P_a][1].key = P_a_f

\* the first entry of the FSEvents section whose path does not exist, 0
\* when every path exists
FirstMissing ==
    LET S == {n \in 1 .. Len(Section("FSEvents")) :
                 MissingPath("FSEvents", Section("FSEvents")[n])}
    IN  IF S = {} THEN 0 ELSE CHOOSE n \in S : \A k \in S : n <= k
\* the registration of the first missing path is what ended the start-up
DiedOnMissing ==
    /\ state = "Terminated" /\ pc = "fs" /\ FirstMissing > 0
    /\ \A n \in 1 .. FirstMissing : ~Unresolvable("FSEvents", Section("FSEvents")[n])
\* the paths of the model that do not exist in the state at hand
Missing == {f \in {P_nx, ConfigFile} : ~exists(realpath(expanduser(f)))}

\* C19: add_fs_notification for a path that does not exist fails with an
\* error and leaves the watch index as it was: applied to the index of any
\* state it returns the error and the same index, and a start-up it ended
\* has status 1 and the index of the registrations before it.
C19_MissingPathFrame ==
    /\ \A f \in Missing :
          LET a == add_fs_notification(FS_WATCHED_FILES, f, NoHandle)
          IN  ~a.ok /\ a.exc = "AttributeError" /\ a.tbl = FS_WATCHED_FILES
    /\ DiedOnMissing => (exit_status = 1 /\ HoldsFirst(FirstMissing - 1))

\* /a was registered, then /n, which does not exist, ended the start-up
C19_Witness ==
    /\ DiedOnMissing /\ FirstMissing = 2
    /\ DOMAIN FS_WATCHED_FILES = {P_a} /\ Len(FS_WATCHED_FILES[P_a]) = 1

\* the handler of the key at hand, and no other, is called with that key,
\* at most once
OwnHandler ==
    ev.src = "sc"
    => /\ ev.key \in DOMAIN SC_HANDLERS
       /\ Len(calls) <= 1
       /\ \A n \in 1 .. Len(calls) :
             calls[n].h = SC_HANDLERS[ev.key] /\ calls[n].key = ev.key
\* the step that ends the call for a key, whatever its outcome: the call
\* has been made once and the callback goes on with the keys that follow
KeyHandled ==
    (ev.src = "sc" /\ ev.status = "running" /\ ev'.status \in {"done", "raised"})
    => (Len(calls') = 1 /\ cb' = AfterEvent(cb))

\* C20: each key of a batch of changed keys causes exactly one invocation
\* of the handler registered for that key, with key = K, in the order of
\* the batch, and the keys are processed independently: the outcome of one
\* key's handler does not keep the keys after it from being processed.
C20_ScRedispatch == []OwnHandler /\ [][KeyHandled]_vars

\* the conditional restarts among the handlers of a watch index
CondRestarts(watched) ==
    UNION {{watched[r][n] : n \in {k \in 1 .. Len(watched[r]) :
                                      watched[r][k].kind = "cond_restart"}} :
             r \in DOMAIN watched}
\* a restart requested by a conditional restart comes from one whose file
\* can be examined and has left the recorded modification time
NoSpuriousRestart ==
    (state = "Stopping" /\ stop_reason = "restart")
    => /\ ev.src = "fs" /\ ev.done >= 1
       /\ LET h == ev.plan[ev.done].h
          IN  /\ h.kind = "cond_restart"
              /\ h \in CondRestarts(FS_WATCHED_FILES)
              /\ exists(h.file_name)
              /\ st_mtime(h.file_name) # h.orig_stat
\* the step of main() that registers the conditional restarts records the
\* modification times the files have at that moment
BaselineRecorded ==
    (pc = "restart" /\ pc' = "signal")
    => \A h \in CondRestarts(FS_WATCHED_FILES') :
          exists(h.file_name) /\ h.orig_stat = st_mtime(h.file_name)
\* once the start-up is through, the recorded values stay as they are as
\* long as the process lives
BaselineKept ==
    (pc = pc' /\ pc \in {"signal", "stream", "runloop"})
    => FS_WATCHED_FILES' = FS_WATCHED_FILES

\* C21: no spurious restart: a filesystem event under a restart watch
\* raises a restart request only through a tracked file that can be
\* examined and has left the modification time recorded at start-up; the
\* recorded times are those of the start-up and are never updated.
C21_NoSpuriousRestart ==
    []NoSpuriousRestart /\ [][BaselineRecorded /\ BaselineKept]_vars

\* an event under /c has called both conditional restarts, whose files
\* are as they were at start-up: the daemon is still Running
C21_Witness ==
    /\ state = "Running" /\ ev.src = "fs" /\ ev.status = "done"
    /\ ev.path = P_c /\ Len(calls) >= 2
    /\ \A n \in 1 .. Len(calls) :
          calls[n].h.kind = "cond_restart" => calls[n].result = "returned"
    /\ \E n \in 1 .. Len(calls) : calls[n].h.key = ConfigFile
    /\ \E n \in 1 .. Len(calls) : calls[n].h.key = ModuleFile
    /\ \A h \in CondRestarts(FS_WATCHED_FILES) : st_mtime(h.file_name) = h.orig_stat

====
